---- MODULE Spec2Model ----
(***************************************************************************)
(* Verification model of perfkitbenchmarker/dpb_service.py: the resource   *)
(* lifecycle of an unmanaged data-processing cluster (Create / Delete with  *)
(* the staging bucket as its dependency), the job polling protocol          *)
(* (_WaitForJob), job submission over SSH (SubmitJob, DistributedCopy) and  *)
(* the wall-time computations; and of the Run phase of                      *)
(* linux_benchmarks/gcsfuse_benchmark.py.                                   *)
(*                                                                          *)
(* resource.BaseResource (Create, Delete) and vm_util (Retry, RunThreaded)  *)
(* are imported by the sources but are not among them; the engine steps     *)
(* that belong to them follow the specification's sections 4.1, 4.3, 4.4.    *)
(***************************************************************************)
EXTENDS Integers, Sequences, FiniteSets, TLC

\* ------------------------------------------------------------------ bounds
\* Number of service objects constructed in one run.
NumRes == 2

Res == 1..NumRes

None == "None"

\* ------------------------------------------------------- construction inputs
\* FLAGS.run_uri: one value per run, shared by every object of the run.
RunUris == {"uri1"}

\* VM identities: the worker (k = 0) and the master (k = 1) of resource r.
\* NoVm stands for self.leader = None.
NoVm == 0
VmOf(r, k) == 2 * r + k

\* self.vms as the benchmark hands it over before Create: no group, only the
\* worker group, an empty master group, or one worker and one master.
Shapes == {"none", "workers", "nomaster", "full"}

VmShape(r, s) ==
  CASE s = "none" -> [g \in {} |-> <<>>]
    [] s = "workers" -> [g \in {"worker_group"} |-> <<VmOf(r, 0)>>]
    [] s = "nomaster" -> [g \in {"worker_group", "master_group"} |->
                            IF g = "worker_group" THEN <<VmOf(r, 0)>> ELSE <<>>]
    [] OTHER -> [g \in {"worker_group", "master_group"} |->
                   IF g = "worker_group" THEN <<VmOf(r, 0)>>
                                         ELSE <<VmOf(r, 1)>>]

\* The services a run constructs: a pre-created cluster, a cluster on GCP with
\* each shape of self.vms, a cluster on AWS, a cluster on a cloud without a
\* storage service.
ServiceSpecs ==
  { [static |-> "static-cluster", cloud |-> "GCP", shape |-> "full"] } \cup
  { [static |-> None, cloud |-> "GCP", shape |-> s] : s \in Shapes } \cup
  { [static |-> None, cloud |-> c, shape |-> "full"] : c \in {"AWS", "Azure"} }

VARIABLES
  run_uri,        \* FLAGS.run_uri
  static,         \* static[r]: spec.static_dpb_service_instance
  cloud,          \* cloud[r]: self.cloud
  vms,            \* vms[r]: self.vms
  state,          \* state[r]: lifecycle state of the resource
  leader,         \* leader[r]: self.leader
  started,        \* started[r]: the cluster was configured and started
  buckets,        \* buckets that exist at the storage backend
  pc,             \* position of the controller thread
  cur,            \* the resource the running operation acts on
  op,             \* the running (or last finished) operation
  raised,         \* the error the last finished operation raised, or None
  hooks,          \* hooks invoked by the running (or last) operation, in order
  install,        \* RunThreaded: one status per target of the running call
  absent,         \* the backend reported "already absent" in this operation
  backend,        \* the class whose _GetCompletedJob _WaitForJob polls
  job,            \* the remote job: the probe that resolves it, and how
  timeout,        \* _WaitForJob's timeout, in seconds
  poll_interval,  \* _WaitForJob's poll_interval, in seconds
  elapsed,        \* seconds since _WaitForJob was called
  tries,          \* _GetCompletedJob calls made by the running _WaitForJob
  returned,       \* what the operation returned: <<>> (nothing) or <<result>>
  args,           \* the arguments of the running SubmitJob
  cmd,            \* SubmitJob: the command list built so far
  start_time,     \* <<>> or <<the clock reading before the command>>
  end_time,       \* <<>> or <<the clock reading after the command>>
  sent,           \* remote commands run by the operation, with their outcome
  written,        \* files written by the operation
  bvms,           \* benchmark_spec.vms of the gcsfuse benchmark
  running,        \* RunThreaded: the targets whose thread has not ended
  finished,       \* RunThreaded: the threads that ended, in that order
  gfile_sample_lists,    \* Run: what the first RunThreaded call returned
  gcsfuse_sample_lists,  \* Run: what the second RunThreaded call returned
  mounted,        \* the benchmark VMs with gcsfuse mounted at /gcs
  is_managed_db,  \* relational db: self.is_managed_db
  engine,         \* relational db: self.spec.engine
  db_flags        \* FLAGS.db_flags

lifecycle == <<state, leader, started, buckets, cur, hooks, install, absent>>

polling == <<backend, job, timeout, poll_interval, elapsed, tries, returned>>

submission == <<args, cmd, start_time, end_time, sent, written>>

bench == <<bvms, running, finished, gfile_sample_lists, gcsfuse_sample_lists,
           mounted>>

vars == <<run_uri, static, cloud, vms, state, leader, started, buckets,
          pc, cur, op, raised, hooks, install, absent,
          backend, job, timeout, poll_interval, elapsed, tries, returned,
          args, cmd, start_time, end_time, sent, written,
          bvms, running, finished, gfile_sample_lists, gcsfuse_sample_lists,
          mounted, is_managed_db, engine, db_flags>>

\* ------------------------------------------------ BaseDpbService.__init__
\* Faulty variant: the flag is not handed to the resource module.
is_user_managed_lost(s) == FALSE

\* is_user_managed = static_dpb_service_instance is not None
is_user_managed(s) == s # None

user_managed(r) == is_user_managed(static[r])

\* self.cluster_id
cluster_id(r) ==
  IF static[r] # None /\ static[r] # ""
    THEN <<static[r]>>
    ELSE <<"pkb-", run_uri>>

\* self.bucket = 'pkb-' + FLAGS.run_uri
bucket(r) == <<"pkb-", run_uri>>

\* ------------------------------------------- UnmanagedDpbService.__init__
\* self.storage_service: gcs on GCP, s3 on AWS, None otherwise.
storage_service(r) ==
  CASE cloud[r] = "GCP" -> "gcs"
    [] cloud[r] = "AWS" -> "s3"
    [] OTHER -> None

\* self.persistent_fs_prefix
persistent_fs_prefix(r) ==
  CASE cloud[r] = "GCP" -> "gs://"
    [] cloud[r] = "AWS" -> "s3://"
    [] OTHER -> None

NoJob == [doneAt |-> 0, fails |-> FALSE, result |-> <<>>]

\* No database is part of the run: FLAGS.db_flags keeps its default.
DbIdle ==
  /\ is_managed_db = TRUE
  /\ engine = "None"
  /\ db_flags = <<>>

PollingIdle ==
  /\ backend = None
  /\ job = NoJob
  /\ timeout = 0
  /\ poll_interval = 0
  /\ elapsed = 0
  /\ tries = 0
  /\ returned = <<>>

\* SubmitJob called with every argument at its default.
NoArgs ==
  [job_type |-> None, classname |-> None, jarfile |-> None,
   pyspark_file |-> None, job_files |-> <<>>, job_arguments |-> <<>>,
   job_stdout_file |-> None, properties |-> <<>>, flags |-> <<>>]

SubmissionIdle ==
  /\ args = NoArgs
  /\ cmd = <<>>
  /\ start_time = <<>>
  /\ end_time = <<>>
  /\ sent = <<>>
  /\ written = <<>>

\* No gcsfuse benchmark in this run.
BenchIdle ==
  /\ bvms = <<>>
  /\ running = {}
  /\ finished = <<>>
  /\ gfile_sample_lists = <<>>
  /\ gcsfuse_sample_lists = <<>>
  /\ mounted = {}

Init ==
  /\ DbIdle
  /\ PollingIdle
  /\ SubmissionIdle
  /\ BenchIdle
  /\ run_uri \in RunUris
  /\ \E c \in [Res -> ServiceSpecs] :
       /\ static = [r \in Res |-> c[r].static]
       /\ cloud = [r \in Res |-> c[r].cloud]
       /\ vms = [r \in Res |-> VmShape(r, c[r].shape)]
  /\ state = [r \in Res |-> "Uninitialized"]
  /\ leader = [r \in Res |-> NoVm]
  /\ started = [r \in Res |-> FALSE]
  /\ buckets = {}
  /\ pc = "idle"
  /\ cur = 0
  /\ op = None
  /\ raised = None
  /\ hooks = <<>>
  /\ install = <<>>
  /\ absent = FALSE

Config == <<run_uri, static, cloud, vms, is_managed_db, engine, db_flags>>

Range(s) == { s[i] : i \in DOMAIN s }

\* The operation ends: it returns (e = None) or raises e to its caller.
Return(e) ==
  /\ pc' = "done"
  /\ raised' = e

Invoke(h) == hooks' = Append(hooks, h)

Begin(r, o) ==
  /\ pc = "idle"
  /\ cur' = r
  /\ op' = o
  /\ UNCHANGED <<hooks, install, absent>>

\* --------------------------------------------------------------- hooks
\* Faulty variant: the hook returns without making the bucket.
CreateDependenciesSkipped(r) == { [err |-> None, bk |-> buckets] }

\* BaseDpbService._CreateDependencies: storage_service.MakeBucket(bucket).
\* The outcomes: the error raised (None: it returned) and the buckets left.
\* MakeBucket itself may be refused by the storage backend.
CreateDependencies(r) ==
  IF storage_service(r) = None
    THEN { [err |-> "AttributeError", bk |-> buckets] }
    ELSE { [err |-> None, bk |-> buckets \cup {bucket(r)}],
           [err |-> "BucketError", bk |-> buckets] }

\* BaseDpbService._DeleteDependencies: storage_service.DeleteBucket(bucket).
\* An existing bucket is removed; for a bucket that does not exist the
\* backend answers "no such bucket".
DeleteDependencies(r) ==
  IF storage_service(r) = None
    THEN [err |-> "AttributeError", bk |-> buckets]
    ELSE IF bucket(r) \in buckets
      THEN [err |-> None, bk |-> buckets \ {bucket(r)}]
      ELSE [err |-> "BucketNotFound", bk |-> buckets]

\* The "already absent" answers of the backend, which Delete() swallows.
AlreadyAbsent == {"BucketNotFound"}

\* BaseDpbService._Delete
BaseDelete(r) == "NotImplementedError"

\* Faulty variant: the cluster class does not override _Delete.
ClusterDeleteInherited(r) == BaseDelete(r)

\* UnmanagedDpbServiceYarnCluster._Delete, UnmanagedDpbSparkCluster._Delete: pass.
\* It raises nothing and changes nothing: the cluster _Create started stays up.
ClusterDelete(r) == None

\* Faulty variant: the worker_group check is missing, the lookup fails instead.
CreateEntryUnchecked(r) ==
  IF "worker_group" \notin DOMAIN vms[r] \/ "master_group" \notin DOMAIN vms[r]
    THEN "KeyError"
    ELSE None

\* _Create, up to the call of RunThreaded: the worker_group check, then the
\* evaluation of self.vms['worker_group'] + self.vms['master_group'].
CreateEntry(r) ==
  IF "worker_group" \notin DOMAIN vms[r] THEN "CreationError"
  ELSE IF "master_group" \notin DOMAIN vms[r] THEN "KeyError"
  ELSE None

\* Faulty variant: the installation runs on the workers only.
InstallTargetsWorkers(r) == vms[r]["worker_group"]

InstallTargets(r) == vms[r]["worker_group"] \o vms[r]["master_group"]

\* Faulty variant: the leader is taken from the worker group.
LeaderOfWorkers(r) == [err |-> None, vm |-> vms[r]["worker_group"][1]]

\* self.leader = self.vms['master_group'][0]
LeaderOf(r) ==
  IF Len(vms[r]["master_group"]) = 0 THEN [err |-> "IndexError", vm |-> NoVm]
  ELSE [err |-> None, vm |-> vms[r]["master_group"][1]]

\* ------------------------------------------------ the lifecycle engine
\* Create(): nothing for a user-managed resource; otherwise the dependencies,
\* then the creation hook.
CreateCall(r) ==
  /\ Begin(r, "Create")
  /\ IF user_managed(r)
       THEN Return(None) /\ UNCHANGED state
       ELSE /\ state' = [state EXCEPT ![r] = "Creating"]
            /\ pc' = "CreateDependencies"
            /\ raised' = None
  /\ UNCHANGED <<polling, submission, bench, Config, leader, started, buckets>>

CreateFail(e) ==
  /\ state' = [state EXCEPT ![cur] = "CreateFailed"]
  /\ Return(e)

CreateDependenciesStep ==
  /\ pc = "CreateDependencies"
  /\ Invoke("_CreateDependencies")
  /\ \E o \in CreateDependencies(cur) :
       /\ buckets' = o.bk
       /\ IF o.err # None
            THEN CreateFail(o.err)
            ELSE pc' = "_Create" /\ UNCHANGED <<state, raised>>
  /\ UNCHANGED <<polling, submission, bench, Config, leader, started, cur, op,
                 install, absent>>

\* _Create begins: the hook is invoked, the groups are looked up and
\* RunThreaded starts one installation per VM.
CreateHookStep ==
  /\ pc = "_Create"
  /\ Invoke("_Create")
  /\ IF CreateEntry(cur) # None
       THEN CreateFail(CreateEntry(cur)) /\ UNCHANGED install
       ELSE /\ install' = [i \in 1..Len(InstallTargets(cur)) |-> "pending"]
            /\ pc' = "RunThreaded"
            /\ UNCHANGED <<state, raised>>
  /\ UNCHANGED <<polling, submission, bench, Config, leader, started, buckets,
                 cur, op, absent>>

\* One RunThreaded thread: InstallHadoop / InstallSpark on target i (the
\* package, then the connector of the cloud) succeeds or fails.
InstallStep(i) ==
  /\ pc = "RunThreaded"
  /\ i \in DOMAIN install
  /\ install[i] = "pending"
  /\ \E st \in {"ok", "failed"} : install' = [install EXCEPT ![i] = st]
  /\ UNCHANGED <<polling, submission, bench, Config, state, leader, started,
                 buckets, pc, cur, op, raised, hooks, absent>>

\* RunThreaded returns once every thread has ended, and raises if one failed.
RunThreadedJoin ==
  /\ pc = "RunThreaded"
  /\ \A i \in DOMAIN install : install[i] # "pending"
  /\ IF \E i \in DOMAIN install : install[i] = "failed"
       THEN CreateFail("InstallError")
       ELSE pc' = "leader" /\ UNCHANGED <<state, raised>>
  /\ UNCHANGED <<polling, submission, bench, Config, leader, started, buckets,
                 cur, op, hooks, install, absent>>

LeaderStep ==
  /\ pc = "leader"
  /\ IF LeaderOf(cur).err # None
       THEN CreateFail(LeaderOf(cur).err) /\ UNCHANGED leader
       ELSE /\ leader' = [leader EXCEPT ![cur] = LeaderOf(cur).vm]
            /\ pc' = "ConfigureAndStart"
            /\ UNCHANGED <<state, raised>>
  /\ UNCHANGED <<polling, submission, bench, Config, started, buckets, cur, op,
                 hooks, install, absent>>

\* hadoop.ConfigureAndStart / spark.ConfigureAndStart succeeds or fails; when
\* it succeeds _Create returns and Create ends in Created.
ConfigureAndStartStep ==
  /\ pc = "ConfigureAndStart"
  /\ \/ /\ started' = [started EXCEPT ![cur] = TRUE]
        /\ state' = [state EXCEPT ![cur] = "Created"]
        /\ Return(None)
     \/ /\ CreateFail("StartError")
        /\ UNCHANGED started
  /\ UNCHANGED <<polling, submission, bench, Config, leader, buckets, cur, op,
                 hooks, install, absent>>

\* Delete(): nothing for a user-managed resource; otherwise the deletion hook,
\* then the dependencies.
DeleteCall(r) ==
  /\ Begin(r, "Delete")
  /\ IF user_managed(r)
       THEN Return(None)
       ELSE pc' = "_Delete" /\ raised' = None
  /\ UNCHANGED <<polling, submission, bench, Config, state, leader, started,
                 buckets>>

DeleteHookStep ==
  /\ pc = "_Delete"
  /\ Invoke("_Delete")
  /\ IF ClusterDelete(cur) # None
       THEN Return(ClusterDelete(cur))
       ELSE pc' = "_DeleteDependencies" /\ UNCHANGED raised
  /\ UNCHANGED <<polling, submission, bench, Config, state, leader, started,
                 buckets, cur, op, install, absent>>

\* An "already absent" answer of the backend is swallowed and Delete() ends in
\* Deleted; any other error of the hook reaches the caller, and the state is
\* left as it was.
DeleteDependenciesStep ==
  /\ pc = "_DeleteDependencies"
  /\ Invoke("_DeleteDependencies")
  /\ LET o == DeleteDependencies(cur) IN
       /\ buckets' = o.bk
       /\ absent' = (o.err \in AlreadyAbsent)
       /\ IF o.err # None /\ o.err \notin AlreadyAbsent
            THEN Return(o.err) /\ UNCHANGED state
            ELSE /\ state' = [state EXCEPT ![cur] = "Deleted"]
                 /\ Return(None)
  /\ UNCHANGED <<polling, submission, bench, Config, leader, started, cur, op,
                 install>>

\* The caller has the outcome of the operation and goes on.
Resume ==
  /\ pc = "done"
  /\ pc' = "idle"
  /\ cur' = 0
  /\ op' = None
  /\ raised' = None
  /\ hooks' = <<>>
  /\ install' = <<>>
  /\ absent' = FALSE
  /\ UNCHANGED <<polling, submission, bench, Config, state, leader, started,
                 buckets>>

Next ==
  \/ \E r \in Res : CreateCall(r)
  \/ CreateDependenciesStep
  \/ CreateHookStep
  \/ \E i \in DOMAIN install : InstallStep(i)
  \/ RunThreadedJoin
  \/ LeaderStep
  \/ ConfigureAndStartStep
  \/ \E r \in Res : DeleteCall(r)
  \/ DeleteHookStep
  \/ DeleteDependenciesStep
  \/ Resume

Spec == Init /\ [][Next]_vars

\* ------------------------------------------------------ the polling protocol
\* Bounds of the polling runs.
MaxTimeout == 4
MaxPollInterval == 3
MaxDoneAt == 4

\* JobResult(run_time, pending_time)
JobResults ==
  { [run_time |-> 3, pending_time |-> 0], [run_time |-> 1, pending_time |-> 2] }

\* The jobs a backend may be running: never resolving (doneAt = 0), or
\* resolving on the doneAt-th probe, to a result or to a failure.
Jobs ==
  { [doneAt |-> 0, fails |-> FALSE, result |-> <<>>] } \cup
  { [doneAt |-> k, fails |-> TRUE, result |-> <<>>] : k \in 1..MaxDoneAt } \cup
  { [doneAt |-> k, fails |-> FALSE, result |-> <<r>>] :
      k \in 1..MaxDoneAt, r \in JobResults }

\* The classes _WaitForJob may run on: the base class, the two clusters that
\* submit over SSH, and a backend that implements the hook as documented.
Backends == {"base", "yarn", "spark", "polled"}

\* Faulty variant: a hook that answers "not finished" on every class.
GetCompletedJobSilent(b, n) == [exc |-> None, val |-> <<>>]

\* _GetCompletedJob, call number n: what it raises (None: nothing) and what
\* it returns (<<>>: Python's None). The base class and the SSH clusters
\* raise NotImplementedError; a polling backend returns None until the job
\* has resolved, then its result, and raises JobSubmissionError if it failed.
GetCompletedJob(b, n) ==
  IF b # "polled" THEN [exc |-> "NotImplementedError", val |-> <<>>]
  ELSE IF job.doneAt = 0 \/ n < job.doneAt THEN [exc |-> None, val |-> <<>>]
  ELSE IF job.fails THEN [exc |-> "JobSubmissionError", val |-> <<>>]
  ELSE [exc |-> None, val |-> job.result]

\* Faulty variant: Poll() never hands a result back.
PollKeepsAsking(probe) ==
  IF probe.exc # None THEN probe
  ELSE [exc |-> "JobNotCompletedError", val |-> <<>>]

\* Poll(), the function _WaitForJob retries.
Poll(probe) ==
  IF probe.exc # None THEN probe
  ELSE IF probe.val = <<>>
    THEN [exc |-> "JobNotCompletedError", val |-> <<>>]
    ELSE [exc |-> None, val |-> probe.val]

\* Faulty variants: the delays are fuzzed by up to a half; nothing is retried.
RetryFuzzHalf == 25 + 25

retryable_exceptions_none == {}

\* Faulty variant: a failed job is retried like an unfinished one.
retryable_exceptions_all == {"JobNotCompletedError", "JobSubmissionError"}

\* Faulty variant: the failure is retried and the unfinished job is not.
retryable_exceptions_swapped == {"JobSubmissionError"}

\* The arguments _WaitForJob gives vm_util.Retry.
RetryFuzz == 0

retryable_exceptions == {"JobNotCompletedError"}

\* vm_util.Retry: the delay before the next attempt, poll_interval shortened by
\* up to the fuzz percentage.
SleepTimes(interval, fuzz) ==
  { t \in 0..interval : t * 100 >= interval * (100 - fuzz) }

\* vm_util.Retry: the attempts stop once more than the timeout has elapsed.
Expired(t, limit) == t > limit

WaitForJobCall(b, j, t, p) ==
  /\ pc = "idle"
  /\ op' = "WaitForJob"
  /\ backend' = b
  /\ job' = j
  /\ timeout' = t
  /\ poll_interval' = p
  /\ elapsed' = 0
  /\ tries' = 0
  /\ returned' = <<>>
  /\ pc' = "poll"
  /\ UNCHANGED <<submission, bench, Config, lifecycle, raised>>

\* One attempt: Poll() returns a result, raises an exception Retry retries,
\* or raises one it lets through.
PollStep ==
  /\ pc = "poll"
  /\ tries' = tries + 1
  /\ LET r == Poll(GetCompletedJob(backend, tries + 1)) IN
       IF r.exc = None
         THEN returned' = r.val /\ Return(None)
         ELSE IF r.exc \in retryable_exceptions
           THEN pc' = "retry" /\ UNCHANGED <<raised, returned>>
           ELSE Return(r.exc) /\ UNCHANGED returned
  /\ UNCHANGED <<submission, bench, Config, lifecycle, op, backend, job,
                 timeout, poll_interval, elapsed>>

\* After a retryable attempt: give up with the timeout error, or sleep and
\* try again.
RetryStep ==
  /\ pc = "retry"
  /\ IF Expired(elapsed, timeout)
       THEN Return("TimeoutError") /\ UNCHANGED elapsed
       ELSE /\ \E d \in SleepTimes(poll_interval, RetryFuzz) :
                 elapsed' = elapsed + d
            /\ pc' = "poll"
            /\ UNCHANGED raised
  /\ UNCHANGED <<submission, bench, Config, lifecycle, op, backend, job,
                 timeout, poll_interval, tries, returned>>

\* The caller has the outcome of _WaitForJob and goes on.
ResumePolling ==
  /\ pc = "done"
  /\ pc' = "idle"
  /\ op' = None
  /\ raised' = None
  /\ backend' = None
  /\ job' = NoJob
  /\ timeout' = 0
  /\ poll_interval' = 0
  /\ elapsed' = 0
  /\ tries' = 0
  /\ returned' = <<>>
  /\ UNCHANGED <<submission, bench, Config, lifecycle>>

InitPolling ==
  /\ DbIdle
  /\ PollingIdle
  /\ SubmissionIdle
  /\ BenchIdle
  /\ run_uri \in RunUris
  /\ static = [r \in Res |-> None]
  /\ cloud = [r \in Res |-> "GCP"]
  /\ vms = [r \in Res |-> VmShape(r, "full")]
  /\ state = [r \in Res |-> "Uninitialized"]
  /\ leader = [r \in Res |-> NoVm]
  /\ started = [r \in Res |-> FALSE]
  /\ buckets = {}
  /\ pc = "idle"
  /\ cur = 0
  /\ op = None
  /\ raised = None
  /\ hooks = <<>>
  /\ install = <<>>
  /\ absent = FALSE

NextPolling ==
  \/ \E b \in Backends, j \in Jobs, t \in 1..MaxTimeout,
        p \in 1..MaxPollInterval : WaitForJobCall(b, j, t, p)
  \/ PollStep
  \/ RetryStep
  \/ ResumePolling

SpecPolling == InitPolling /\ [][NextPolling]_vars

\* The calling thread keeps running: a sleep ends and the next attempt is made.
FairPolling == SpecPolling /\ WF_vars(PollStep) /\ WF_vars(RetryStep)

\* --------------------------------------------------------------- SubmitJob
\* Bounds of the submission runs: entries of FLAGS.dpb_job_properties, and
\* the largest reading of the clock.
MaxFlags == 1
MaxClock == 2

HADOOP_JOB_TYPE == "hadoop"
SPARK_JOB_TYPE == "spark"
PYSPARK_JOB_TYPE == "pyspark"
SPARKSQL_JOB_TYPE == "spark-sql"

\* hadoop.HADOOP_CMD, spark.SPARK_SUBMIT
HADOOP_CMD == "hadoop"
SPARK_SUBMIT == "spark-submit"

\* The two classes that implement SubmitJob.
SubmitBackends == {"yarn", "spark"}

\* JobResult(run_time, pending_time); pending_time defaults to 0.
JobResult(run, pending) == [run_time |-> run, pending_time |-> pending]

JobResultOf(run) == JobResult(run, 0)

\* Faulty variant: the pending time is left out of the sum.
wall_time_run_only(j) == j.run_time

\* JobResult.wall_time
wall_time(j) == j.run_time + j.pending_time

\* A Python dict is a sequence of <<key, value>> pairs with distinct keys, in
\* insertion order. d[k] = v: a key already present keeps its place.
DictSet(d, k, v) ==
  IF \E i \in DOMAIN d : d[i][1] = k
    THEN [i \in DOMAIN d |-> IF d[i][1] = k THEN <<k, v>> ELSE d[i]]
    ELSE Append(d, <<k, v>>)

RECURSIVE DictUpdate(_, _)
\* dict(pairs) and d.update(pairs): the pairs are set one after the other.
DictUpdate(d, pairs) ==
  IF pairs = <<>> THEN d
  ELSE DictUpdate(DictSet(d, Head(pairs)[1], Head(pairs)[2]), Tail(pairs))

DictKeys(d) == { d[i][1] : i \in DOMAIN d }

DictGet(d, k) == d[CHOOSE i \in DOMAIN d : d[i][1] = k][2]

\* GetJobProperties: dict(pair.split('=') for pair in FLAGS.dpb_job_properties).
\* An entry 'k=v' of the flag is the pair <<k, v>>.
GetJobProperties(flags) == DictUpdate(<<>>, flags)

\* Faulty variant: the defaults are laid over the caller's properties.
AllPropertiesDefaultsWin(flags, properties) ==
  DictUpdate(IF properties = <<>> THEN <<>> ELSE properties[1],
             GetJobProperties(flags))

\* all_properties = self.GetJobProperties()
\* all_properties.update(properties or {})
\* properties is <<>> for None and <<d>> for the dict d.
AllProperties(flags, properties) ==
  DictUpdate(GetJobProperties(flags),
             IF properties = <<>> THEN <<>> ELSE properties[1])

\* One word of a command line.
Tok(s) == <<s>>

Toks(l) == [i \in DOMAIN l |-> Tok(l[i])]

\* '-D{}={}'.format(k, v)
DashD(p) == <<"-D", p[1], "=", p[2]>>

\* '{}={}'.format(k, v)
KeyValue(p) == <<p[1], "=", p[2]>>

\* ','.join(job_files): one word; of a single file, the file itself.
CommaJoin(l) == l

RECURSIVE ConfOptions(_)
\* for k, v in all_properties.items(): cmd += ['--conf', '{}={}'.format(k, v)]
ConfOptions(d) ==
  IF d = <<>> THEN <<>>
  ELSE <<Tok("--conf"), KeyValue(Head(d))>> \o ConfOptions(Tail(d))

\* Faulty variant: the job_type is not looked at.
YarnCommandAnyKind(a) ==
  [err |-> None, cmd |-> <<Tok(HADOOP_CMD)>> \o Toks(a.job_arguments)]

\* UnmanagedDpbServiceYarnCluster.SubmitJob up to cmd_string: the error it
\* raises, or the words of the command.
YarnCommand(a) ==
  IF a.job_type # HADOOP_JOB_TYPE
    THEN [err |-> "NotImplementedError", cmd |-> <<>>]
    ELSE [err |-> None,
          cmd |-> <<Tok(HADOOP_CMD)>>
                  \o (IF a.jarfile # None
                        THEN <<Tok("jar"), Tok(a.jarfile)>> ELSE <<>>)
                  \o (IF a.classname # None THEN <<Tok(a.classname)>> ELSE <<>>)
                  \o (LET d == AllProperties(a.flags, a.properties) IN
                        [i \in DOMAIN d |-> DashD(d[i])])
                  \o Toks(a.job_arguments)]

\* UnmanagedDpbSparkCluster.SubmitJob up to ' '.join(cmd). With job_files the
\* list built so far is replaced by the --files option.
SparkCommand(a) ==
  LET options == <<Tok(SPARK_SUBMIT)>>
                 \o (IF a.classname # None
                       THEN <<Tok("--class"), Tok(a.classname)>> ELSE <<>>)
                 \o ConfOptions(AllProperties(a.flags, a.properties))
      withFiles == IF a.job_files # <<>>
                     THEN <<Tok("--files"), CommaJoin(a.job_files)>>
                     ELSE options
      main == IF a.job_type = SPARK_JOB_TYPE THEN a.jarfile ELSE a.pyspark_file
  IN
  IF a.job_type \notin {PYSPARK_JOB_TYPE, SPARK_JOB_TYPE}
    THEN [err |-> "NotImplementedError", cmd |-> <<>>]
    ELSE IF main = None
      THEN [err |-> "AssertionError", cmd |-> <<>>]
      ELSE [err |-> None,
            cmd |-> withFiles \o <<Tok(main)>> \o Toks(a.job_arguments)]

BuildCommand(b, a) == IF b = "yarn" THEN YarnCommand(a) ELSE SparkCommand(a)

\* ----------------------------------------------------- submission inputs
Keys == {"a", "b"}

\* Entries 'k=v' of FLAGS.dpb_job_properties.
FlagPairs == { <<k, v>> : k \in Keys, v \in {"0", "1"} }

RECURSIVE SeqsUpTo(_, _)
SeqsUpTo(S, n) ==
  IF n = 0 THEN { <<>> }
  ELSE LET shorter == SeqsUpTo(S, n - 1) IN
         shorter \cup { Append(q, x) : q \in shorter, x \in S }

FlagLists == SeqsUpTo(FlagPairs, MaxFlags)

\* properties: None, {}, {'a': '2'}, {'a': '2', 'b': '3'}
CallerProperties ==
  { <<>>, << <<>> >>, << << <<"a", "2">> >> >>,
    << << <<"a", "2">>, <<"b", "3">> >> >> }

JobTypes ==
  {HADOOP_JOB_TYPE, SPARK_JOB_TYPE, PYSPARK_JOB_TYPE, SPARKSQL_JOB_TYPE}

\* The keyword arguments of SubmitJob that the SSH clusters read, and the
\* value of FLAGS.dpb_job_properties during the call. job_files and
\* job_arguments: <<>> stands for None and for the empty list alike.
SubmitArgs ==
  [job_type : JobTypes,
   classname : {None, "Main"},
   jarfile : {None, "job.jar"},
   pyspark_file : {None, "job.py"},
   job_files : { <<>>, <<"f1", "f2">> },
   job_arguments : { <<>>, <<"x", "y">> },
   job_stdout_file : {None, "out"},
   properties : CallerProperties,
   flags : FlagLists]

Dirs == {"gs://src", "gs://dst"}

\* DistributedCopy: the SubmitJob call it makes.
DistributedCopyArgs(source, destination, properties, flags) ==
  [job_type |-> HADOOP_JOB_TYPE,
   classname |-> "org.apache.hadoop.tools.DistCp",
   jarfile |-> None,
   pyspark_file |-> None,
   job_files |-> <<>>,
   job_arguments |-> <<source, destination>>,
   job_stdout_file |-> None,
   properties |-> properties,
   flags |-> flags]

\* datetime.datetime.now() reads the wall clock, which may be set back
\* between two readings.
Clock == 0..MaxClock

\* (end_time - start_time).total_seconds(), in ticks of the clock.
total_seconds(start, end) == end - start

\* Faulty variant: the transport's error is raised again as it is.
SubmissionFailurePassed(e) == e

\* except RemoteCommandError as e: raise JobSubmissionError() from e
SubmissionFailure(e) == "JobSubmissionError"

\* ---------------------------------------------------- submission actions
Submit(r, b, o, a) ==
  /\ pc = "idle"
  /\ pc' = "SubmitJob"
  /\ cur' = r
  /\ op' = o
  /\ backend' = b
  /\ args' = a
  /\ UNCHANGED <<bench, Config, state, leader, started, buckets, hooks,
                 install, absent, raised, job, timeout, poll_interval, elapsed,
                 tries, returned, cmd, start_time, end_time, sent, written>>

SubmitJobCall(r, b, a) == Submit(r, b, "SubmitJob", a)

DistributedCopyCall(r, b, source, destination, properties, flags) ==
  Submit(r, b, "DistributedCopy",
         DistributedCopyArgs(source, destination, properties, flags))

\* The job_type check and the command list.
BuildCommandStep ==
  /\ pc = "SubmitJob"
  /\ LET c == BuildCommand(backend, args) IN
       IF c.err # None
         THEN Return(c.err) /\ UNCHANGED cmd
         ELSE cmd' = c.cmd /\ pc' = "start_time" /\ UNCHANGED raised
  /\ UNCHANGED <<bench, Config, lifecycle, polling, op, args, start_time,
                 end_time, sent, written>>

\* start_time = datetime.datetime.now()
StartTimeStep ==
  /\ pc = "start_time"
  /\ \E t \in Clock : start_time' = <<t>>
  /\ pc' = "RobustRemoteCommand"
  /\ UNCHANGED <<bench, Config, lifecycle, polling, op, raised, args, cmd,
                 end_time, sent, written>>

\* self.leader.RobustRemoteCommand(cmd_string): without a leader the
\* attribute lookup fails; otherwise the command runs and succeeds, or the
\* transport raises RemoteCommandError.
RobustRemoteCommandStep ==
  /\ pc = "RobustRemoteCommand"
  /\ IF leader[cur] = NoVm
       THEN Return("AttributeError") /\ UNCHANGED sent
       ELSE \E e \in {None, "RemoteCommandError"} :
              /\ sent' = Append(sent, [vm |-> leader[cur], cmd |-> cmd,
                                       exc |-> e])
              /\ IF e # None
                   THEN Return(SubmissionFailure(e))
                   ELSE pc' = "end_time" /\ UNCHANGED raised
  /\ UNCHANGED <<bench, Config, lifecycle, polling, op, args, cmd, start_time,
                 end_time, written>>

\* end_time = datetime.datetime.now(); the stdout file; the JobResult.
EndTimeStep ==
  /\ pc = "end_time"
  /\ \E t \in Clock :
       /\ end_time' = <<t>>
       /\ returned' = <<JobResultOf(total_seconds(start_time[1], t))>>
  /\ written' = IF args.job_stdout_file # None
                  THEN Append(written, args.job_stdout_file)
                  ELSE written
  /\ Return(None)
  /\ UNCHANGED <<bench, Config, lifecycle, op, backend, job, timeout,
                 poll_interval, elapsed, tries, args, cmd, start_time, sent>>

\* The caller has the outcome of the submission and goes on.
ResumeSubmit ==
  /\ pc = "done"
  /\ pc' = "idle"
  /\ cur' = 0
  /\ op' = None
  /\ raised' = None
  /\ backend' = None
  /\ returned' = <<>>
  /\ args' = NoArgs
  /\ cmd' = <<>>
  /\ start_time' = <<>>
  /\ end_time' = <<>>
  /\ sent' = <<>>
  /\ written' = <<>>
  /\ UNCHANGED <<bench, Config, state, leader, started, buckets, hooks,
                 install, absent, job, timeout, poll_interval, elapsed, tries>>

\* The run after its Create() calls have returned: the first service is a
\* pre-created cluster, the others were created on GCP.
InitSubmit ==
  /\ DbIdle
  /\ PollingIdle
  /\ SubmissionIdle
  /\ BenchIdle
  /\ run_uri \in RunUris
  /\ static = [r \in Res |-> IF r = 1 THEN "static-cluster" ELSE None]
  /\ cloud = [r \in Res |-> "GCP"]
  /\ vms = [r \in Res |-> VmShape(r, "full")]
  /\ state = [r \in Res |-> IF r = 1 THEN "Uninitialized" ELSE "Created"]
  /\ leader = [r \in Res |-> IF r = 1 THEN NoVm ELSE VmOf(r, 1)]
  /\ started = [r \in Res |-> r # 1]
  /\ buckets = IF NumRes > 1 THEN { <<"pkb-", run_uri>> } ELSE {}
  /\ pc = "idle"
  /\ cur = 0
  /\ op = None
  /\ raised = None
  /\ hooks = <<>>
  /\ install = <<>>
  /\ absent = FALSE

NextSubmit ==
  \/ /\ pc = "idle"
     /\ \E r \in Res, b \in SubmitBackends, a \in SubmitArgs :
          SubmitJobCall(r, b, a)
  \/ /\ pc = "idle"
     /\ \E r \in Res, b \in SubmitBackends, s \in Dirs, d \in Dirs,
           p \in CallerProperties, f \in FlagLists :
          DistributedCopyCall(r, b, s, d, p, f)
  \/ BuildCommandStep
  \/ StartTimeStep
  \/ RobustRemoteCommandStep
  \/ EndTimeStep
  \/ ResumeSubmit

SpecSubmit == InitSubmit /\ [][NextSubmit]_vars

\* ------------------------------------------------- wall-time computations
\* Bound of the timing runs: the largest instant and the largest duration.
MaxInstant == 7

Instants == 0..MaxInstant

\* Faulty variant: the order of the two instants is not checked.
ProcessWallTimeUnchecked(start, end) ==
  [err |-> None, val |-> <<total_seconds(start, end)>>]

\* BaseDpbService._ProcessWallTime: the error it raises, or what it returns.
ProcessWallTime(start, end) ==
  IF start > end
    THEN [err |-> "ValueError", val |-> <<>>]
    ELSE [err |-> None, val |-> <<total_seconds(start, end)>>]

ProcessWallTimeCall(start, end) ==
  /\ pc = "idle"
  /\ op' = "_ProcessWallTime"
  /\ start_time' = <<start>>
  /\ end_time' = <<end>>
  /\ returned' = ProcessWallTime(start, end).val
  /\ Return(ProcessWallTime(start, end).err)
  /\ UNCHANGED <<bench, Config, lifecycle, backend, job, timeout,
                 poll_interval, elapsed, tries, args, cmd, sent, written>>

\* A backend builds the JobResult of a job, with or without a pending time.
JobResultCall(run, pending) ==
  /\ pc = "idle"
  /\ op' = IF pending = <<>> THEN "JobResult(run_time)"
                             ELSE "JobResult(run_time, pending_time)"
  /\ job' = [doneAt |-> 0, fails |-> FALSE,
             result |-> IF pending = <<>>
                          THEN <<JobResultOf(run)>>
                          ELSE <<JobResult(run, pending[1])>>]
  /\ pc' = "wall_time"
  /\ UNCHANGED <<bench, Config, lifecycle, raised, backend, timeout,
                 poll_interval, elapsed, tries, returned, submission>>

\* The caller reads the wall_time property of the result.
WallTimeStep ==
  /\ pc = "wall_time"
  /\ returned' = <<wall_time(job.result[1])>>
  /\ Return(None)
  /\ UNCHANGED <<bench, Config, lifecycle, op, backend, job, timeout,
                 poll_interval, elapsed, tries, submission>>

ResumeTiming ==
  /\ pc = "done"
  /\ pc' = "idle"
  /\ op' = None
  /\ raised' = None
  /\ job' = NoJob
  /\ returned' = <<>>
  /\ start_time' = <<>>
  /\ end_time' = <<>>
  /\ UNCHANGED <<bench, Config, lifecycle, backend, timeout, poll_interval,
                 elapsed, tries, args, cmd, sent, written>>

NextTiming ==
  \/ \E s \in Instants, e \in Instants : ProcessWallTimeCall(s, e)
  \/ \E r \in Instants, p \in {<<>>} \cup { <<d>> : d \in Instants } :
       JobResultCall(r, p)
  \/ WallTimeStep
  \/ ResumeTiming

SpecTiming == InitPolling /\ [][NextTiming]_vars

\* ------------------------------------------------- gcsfuse benchmark: Run
\* Bounds of the benchmark runs: the VMs of the benchmark, and the largest
\* throughput a read test prints.
NumVms == 2
MaxThroughput == 2

UNIT == "MB/s"

\* _ReadThroughputTest: the floats parsed from the lines the script printed.
Metrics == { <<>> } \cup { <<x>> : x \in 1..MaxThroughput }

\* [sample.Sample(name, x, UNIT) for x in metrics]
SampleList(name, metrics) ==
  [i \in DOMAIN metrics |->
     [metric |-> name, value |-> metrics[i], unit |-> UNIT]]

\* _ReadThroughputTestViaGfile, _ReadThroughputTestViaGcsfuse
ReadThroughputTest(phase, metrics) ==
  IF phase = "gfile" THEN SampleList("gfile read throughput", metrics)
                     ELSE SampleList("gcsfuse read throughput", metrics)

\* Faulty variant: the results are handed back in the order of completion.
RunThreadedResultsAsCompleted(log, n) == [i \in 1..n |-> log[i].val]

\* vm_util.RunThreaded: the results of the threads, the i-th being that of
\* the thread started for the i-th target.
RunThreadedResults(log, n) ==
  [i \in 1..n |-> log[CHOOSE k \in DOMAIN log : log[k].target = i].val]

\* Faulty variant: the failures of the threads are dropped.
RunThreadedFailureDropped(log) == None

\* vm_util.RunThreaded: the failure it raises once every thread has ended,
\* or None.
RunThreadedFailure(log) ==
  IF \E k \in DOMAIN log : log[k].exc # None
    THEN log[CHOOSE k \in DOMAIN log : log[k].exc # None].exc
    ELSE None

RECURSIVE Extend(_)
\* for sample_list in lists: samples.extend(sample_list)
Extend(lists) ==
  IF lists = <<>> THEN <<>> ELSE Head(lists) \o Extend(Tail(lists))

\* Faulty variant: the gcsfuse samples are put before the gfile samples.
SamplesGcsfuseFirst(gfile, gcsfuse) == Extend(gcsfuse \o gfile)

\* Run: the samples of gfile_sample_lists + gcsfuse_sample_lists.
Samples(gfile, gcsfuse) == Extend(gfile \o gcsfuse)

\* ------------------------------------- gcsfuse benchmark: Prepare, Cleanup
BenchOps == {"Prepare", "Run", "Cleanup"}

\* _Prepare(vm): vm.Install('gcsfuse') (gcsfuse.AptInstall, whose last command
\* mounts gcsfuse at /gcs), then the test script is pushed and made
\* executable. Each outcome: whether the VM ends up mounted, and the error.
PrepareOutcomes(wasMounted) ==
  { [mnt |-> wasMounted, exc |-> "RemoteCommandError"],
    [mnt |-> TRUE, exc |-> "RemoteCommandError"],
    [mnt |-> TRUE, exc |-> None] }

\* Cleanup: vm = benchmark_spec.vms[0]
CleanupVm(l) == l[1]

\* gcsfuse.Uninstall(vm): 'sudo umount /gcs' unmounts a mounted VM or fails
\* and leaves it as it was.
UninstallOutcomes(wasMounted) ==
  IF wasMounted
    THEN { [mnt |-> FALSE, exc |-> None],
           [mnt |-> TRUE, exc |-> "RemoteCommandError"] }
    ELSE { [mnt |-> FALSE, exc |-> "RemoteCommandError"] }

\* Prepare: vm_util.RunThreaded(_Prepare, vms)
PrepareCall ==
  /\ pc = "idle"
  /\ op' = "Prepare"
  /\ running' = DOMAIN bvms
  /\ finished' = <<>>
  /\ pc' = "Prepare"
  /\ UNCHANGED <<Config, lifecycle, polling, submission, raised, bvms,
                 gfile_sample_lists, gcsfuse_sample_lists, mounted>>

\* One thread of Prepare's RunThreaded call ends.
PrepareThreadStep(i) ==
  /\ pc = "Prepare"
  /\ i \in running
  /\ running' = running \ {i}
  /\ \E o \in PrepareOutcomes(bvms[i] \in mounted) :
       /\ mounted' = IF o.mnt THEN mounted \cup {bvms[i]}
                              ELSE mounted \ {bvms[i]}
       /\ finished' = Append(finished, [target |-> i, exc |-> o.exc,
                                        val |-> <<>>])
  /\ UNCHANGED <<Config, lifecycle, polling, submission, pc, op, raised, bvms,
                 gfile_sample_lists, gcsfuse_sample_lists>>

\* Prepare's RunThreaded call returns, and Prepare with it.
PrepareJoin ==
  /\ pc = "Prepare"
  /\ running = {}
  /\ Return(RunThreadedFailure(finished))
  /\ UNCHANGED <<Config, lifecycle, polling, submission, op, bench>>

\* Cleanup: vm.Uninstall('gcsfuse') on the first VM of the benchmark.
CleanupCall ==
  /\ pc = "idle"
  /\ op' = "Cleanup"
  /\ LET vm == CleanupVm(bvms) IN
       \E o \in UninstallOutcomes(vm \in mounted) :
         /\ mounted' = IF o.mnt THEN mounted \cup {vm} ELSE mounted \ {vm}
         /\ Return(o.exc)
  /\ UNCHANGED <<Config, lifecycle, polling, submission, bvms, running,
                 finished, gfile_sample_lists, gcsfuse_sample_lists>>

\* Run: the first RunThreaded call starts its threads.
RunCall ==
  /\ pc = "idle"
  /\ op' = "Run"
  /\ running' = DOMAIN bvms
  /\ finished' = <<>>
  /\ pc' = "gfile"
  /\ UNCHANGED <<Config, lifecycle, polling, submission, raised, bvms,
                 gfile_sample_lists, gcsfuse_sample_lists, mounted>>

\* One thread of the running RunThreaded call ends: the read test on VM i
\* returns its samples, or its remote command raises.
ReadThreadStep(i) ==
  /\ pc \in {"gfile", "gcsfuse"}
  /\ i \in running
  /\ running' = running \ {i}
  /\ \/ \E m \in Metrics :
          finished' = Append(finished, [target |-> i, exc |-> None,
                                        val |-> ReadThroughputTest(pc, m)])
     \/ finished' = Append(finished, [target |-> i,
                                      exc |-> "RemoteCommandError",
                                      val |-> <<>>])
  /\ UNCHANGED <<Config, lifecycle, polling, submission, pc, op, raised, bvms,
                 gfile_sample_lists, gcsfuse_sample_lists, mounted>>

\* The first RunThreaded call returns and the second one starts its threads.
GfileJoin ==
  /\ pc = "gfile"
  /\ running = {}
  /\ IF RunThreadedFailure(finished) # None
       THEN /\ Return(RunThreadedFailure(finished))
            /\ UNCHANGED <<running, finished, gfile_sample_lists>>
       ELSE /\ gfile_sample_lists' = RunThreadedResults(finished, Len(bvms))
            /\ running' = DOMAIN bvms
            /\ finished' = <<>>
            /\ pc' = "gcsfuse"
            /\ UNCHANGED raised
  /\ UNCHANGED <<Config, lifecycle, polling, submission, op, bvms,
                 gcsfuse_sample_lists, mounted>>

\* The second RunThreaded call returns and Run returns the samples.
GcsfuseJoin ==
  /\ pc = "gcsfuse"
  /\ running = {}
  /\ IF RunThreadedFailure(finished) # None
       THEN /\ Return(RunThreadedFailure(finished))
            /\ UNCHANGED <<gcsfuse_sample_lists, returned>>
       ELSE /\ gcsfuse_sample_lists' = RunThreadedResults(finished, Len(bvms))
            /\ returned' = <<Samples(gfile_sample_lists,
                                     gcsfuse_sample_lists')>>
            /\ Return(None)
  /\ UNCHANGED <<Config, lifecycle, op, backend, job, timeout, poll_interval,
                 elapsed, tries, submission, bvms, running, finished,
                 gfile_sample_lists, mounted>>

\* The caller has the outcome of Prepare, Run or Cleanup and goes on.
ResumeRun ==
  /\ pc = "done"
  /\ op \in BenchOps
  /\ pc' = "idle"
  /\ op' = None
  /\ raised' = None
  /\ returned' = <<>>
  /\ running' = {}
  /\ finished' = <<>>
  /\ gfile_sample_lists' = <<>>
  /\ gcsfuse_sample_lists' = <<>>
  /\ UNCHANGED <<Config, lifecycle, backend, job, timeout, poll_interval,
                 elapsed, tries, submission, bvms, mounted>>

\* The benchmark with its VMs provisioned; it constructs no dpb service of
\* its own, the services stay as they were constructed.
InitRun ==
  /\ DbIdle
  /\ PollingIdle
  /\ SubmissionIdle
  /\ run_uri \in RunUris
  /\ static = [r \in Res |-> None]
  /\ cloud = [r \in Res |-> "GCP"]
  /\ vms = [r \in Res |-> VmShape(r, "full")]
  /\ state = [r \in Res |-> "Uninitialized"]
  /\ leader = [r \in Res |-> NoVm]
  /\ started = [r \in Res |-> FALSE]
  /\ buckets = {}
  /\ pc = "idle"
  /\ cur = 0
  /\ op = None
  /\ raised = None
  /\ hooks = <<>>
  /\ install = <<>>
  /\ absent = FALSE
  /\ \E n \in 1..NumVms : bvms = [i \in 1..n |-> i]
  /\ running = {}
  /\ finished = <<>>
  /\ gfile_sample_lists = <<>>
  /\ gcsfuse_sample_lists = <<>>
  /\ mounted = {}

NextRun ==
  \/ PrepareCall
  \/ \E i \in DOMAIN bvms : PrepareThreadStep(i)
  \/ PrepareJoin
  \/ CleanupCall
  \/ RunCall
  \/ \E i \in DOMAIN bvms : ReadThreadStep(i)
  \/ GfileJoin
  \/ GcsfuseJoin
  \/ ResumeRun

SpecRun == InitRun /\ [][NextRun]_vars

\* --------------------------------------------- relational_db: _PostCreate
\* Bound of the database runs: entries of FLAGS.db_flags.
MaxDbFlags == 2

MYSQL == "mysql"
POSTGRES == "postgres"
SQLSERVER == "sqlserver"

Engines == {MYSQL, POSTGRES, SQLSERVER}

DbFlagNames == {"binlog_cache_size=4096", "innodb_log_buffer_size=8192"}

DbFlagLists == SeqsUpTo(DbFlagNames, MaxDbFlags)

\* MakeMysqlConnectionString() of an unmanaged database: the endpoint is '',
\* the user root, the password perfkitbenchmarker.
MakeMysqlConnectionString == "-h  -P 3306 -u root -pperfkitbenchmarker"

\* Python's format % values: the values must be as many as the %s of the
\* format; a value that is not a tuple counts as one.
PercentFormat(slots, values) ==
  IF Len(values) # slots
    THEN [exc |-> "TypeError", val |-> <<>>]
    ELSE [exc |-> None, val |-> values]

\* The command of the claim: mysql <connection> -e 'SET <flag>;'
SetFlagCommand(flag) == <<MakeMysqlConnectionString, flag>>

\* _ApplyMySqlFlags, the assignment to cmd: % binds tighter than the comma,
\* so the format with its two %s is applied to the connection string alone
\* and the flag would be the second item of a tuple.
MySqlFlagsCmd(flag) ==
  LET formatted == PercentFormat(2, <<MakeMysqlConnectionString>>) IN
    IF formatted.exc # None
      THEN [exc |-> formatted.exc, cmd |-> <<>>]
      ELSE [exc |-> None, cmd |-> <<formatted.val, flag>>]

\* _PostCreate: self._ApplyDbFlags()
PostCreateCall ==
  /\ pc = "idle"
  /\ op' = "_PostCreate"
  /\ pc' = "_ApplyDbFlags"
  /\ UNCHANGED <<Config, lifecycle, polling, submission, bench, raised>>

\* _ApplyDbFlags: nothing without flags; the managed hook; the MySQL flags;
\* NotImplementedError for another engine.
ApplyDbFlagsStep ==
  /\ pc = "_ApplyDbFlags"
  /\ IF db_flags = <<>> THEN Return(None)
     ELSE IF is_managed_db
       THEN pc' = "_ApplyManagedDbFlags" /\ UNCHANGED raised
     ELSE IF engine = MYSQL
       THEN pc' = "_ApplyMySqlFlags" /\ UNCHANGED raised
     ELSE Return("NotImplementedError")
  /\ UNCHANGED <<Config, lifecycle, polling, submission, bench, op>>

\* _ApplyManagedDbFlags: the base class raises NotImplementedError; a class
\* that overrides it returns.
ApplyManagedDbFlagsStep ==
  /\ pc = "_ApplyManagedDbFlags"
  /\ Invoke("_ApplyManagedDbFlags")
  /\ \E e \in {None, "NotImplementedError"} : Return(e)
  /\ UNCHANGED <<Config, polling, submission, bench, op, state, leader,
                 started, buckets, cur, install, absent>>

\* _ApplyMySqlFlags, one turn of the loop: the command of the next flag is
\* built and issued, and a command that reports stderr ends the call.
ApplyMySqlFlagsStep ==
  /\ pc = "_ApplyMySqlFlags"
  /\ IF Len(sent) = Len(db_flags)
       THEN Return(None) /\ UNCHANGED sent
       ELSE LET c == MySqlFlagsCmd(db_flags[Len(sent) + 1]) IN
         IF c.exc # None
           THEN Return(c.exc) /\ UNCHANGED sent
           ELSE \E stderr \in {None, "stderr"} :
                  /\ sent' = Append(sent, [vm |-> NoVm, cmd |-> c.cmd,
                                           exc |-> stderr])
                  /\ IF stderr # None
                       THEN Return("Exception")
                       ELSE UNCHANGED <<pc, raised>>
  /\ UNCHANGED <<Config, lifecycle, polling, bench, op, args, cmd, start_time,
                 end_time, written>>

\* The caller has the outcome of _PostCreate and goes on.
ResumePostCreate ==
  /\ pc = "done"
  /\ pc' = "idle"
  /\ op' = None
  /\ raised' = None
  /\ hooks' = <<>>
  /\ sent' = <<>>
  /\ UNCHANGED <<Config, polling, bench, state, leader, started, buckets, cur,
                 install, absent, args, cmd, start_time, end_time, written>>

\* Every database a run may hold: managed or not, of each engine, with each
\* list of flags.
InitDb ==
  /\ PollingIdle
  /\ SubmissionIdle
  /\ BenchIdle
  /\ run_uri \in RunUris
  /\ static = [r \in Res |-> None]
  /\ cloud = [r \in Res |-> "GCP"]
  /\ vms = [r \in Res |-> VmShape(r, "full")]
  /\ is_managed_db \in BOOLEAN
  /\ engine \in Engines
  /\ db_flags \in DbFlagLists
  /\ state = [r \in Res |-> "Uninitialized"]
  /\ leader = [r \in Res |-> NoVm]
  /\ started = [r \in Res |-> FALSE]
  /\ buckets = {}
  /\ pc = "idle"
  /\ cur = 0
  /\ op = None
  /\ raised = None
  /\ hooks = <<>>
  /\ install = <<>>
  /\ absent = FALSE

NextDb ==
  \/ PostCreateCall
  \/ ApplyDbFlagsStep
  \/ ApplyManagedDbFlagsStep
  \/ ApplyMySqlFlagsStep
  \/ ResumePostCreate

SpecDb == InitDb /\ [][NextDb]_vars

\* ----------------------------------------------------------- jobs
\* Submissions over SSH (resolved within SubmitJob) next to waits on a
\* submitted job (_WaitForJob).
NextJob ==
  \/ /\ pc = "idle"
     /\ \E r \in Res, b \in SubmitBackends, a \in SubmitArgs :
          SubmitJobCall(r, b, a)
  \/ BuildCommandStep
  \/ StartTimeStep
  \/ RobustRemoteCommandStep
  \/ EndTimeStep
  \/ op = "SubmitJob" /\ ResumeSubmit
  \/ \E b \in Backends, j \in Jobs, t \in 1..MaxTimeout,
        p \in 1..MaxPollInterval : WaitForJobCall(b, j, t, p)
  \/ PollStep
  \/ RetryStep
  \/ op = "WaitForJob" /\ ResumePolling

SpecJob == InitSubmit /\ [][NextJob]_vars

\* ----------------------------------------------- a service and its jobs
\* The service of the benchmark specification (resource 1), pre-created by
\* the user or not, is created; once Create() has returned without an error
\* (which leaves a user-managed service as it was), jobs are submitted to it.
InitService ==
  /\ DbIdle
  /\ PollingIdle
  /\ SubmissionIdle
  /\ BenchIdle
  /\ run_uri \in RunUris
  /\ \E s \in {None, "static-cluster"} :
       static = [r \in Res |-> IF r = 1 THEN s ELSE None]
  /\ cloud = [r \in Res |-> "GCP"]
  /\ vms = [r \in Res |-> VmShape(r, "full")]
  /\ state = [r \in Res |-> "Uninitialized"]
  /\ leader = [r \in Res |-> NoVm]
  /\ started = [r \in Res |-> FALSE]
  /\ buckets = {}
  /\ pc = "idle"
  /\ cur = 0
  /\ op = None
  /\ raised = None
  /\ hooks = <<>>
  /\ install = <<>>
  /\ absent = FALSE

CreateReturned(r) == user_managed(r) \/ state[r] = "Created"

NextService ==
  \/ CreateCall(1)
  \/ CreateDependenciesStep
  \/ CreateHookStep
  \/ \E i \in DOMAIN install : InstallStep(i)
  \/ RunThreadedJoin
  \/ LeaderStep
  \/ ConfigureAndStartStep
  \/ op = "Create" /\ Resume
  \/ /\ pc = "idle"
     /\ CreateReturned(1)
     /\ \E b \in SubmitBackends, a \in SubmitArgs : SubmitJobCall(1, b, a)
  \/ BuildCommandStep
  \/ StartTimeStep
  \/ RobustRemoteCommandStep
  \/ EndTimeStep
  \/ op = "SubmitJob" /\ ResumeSubmit

SpecService == InitService /\ [][NextService]_vars

\* ----------------------------------- cluster creation next to a benchmark
\* A run creates the service of its benchmark specification (resource 1
\* here) and prepares, runs and cleans up the benchmark: every call here
\* goes through vm_util.RunThreaded.
NextRunner ==
  \/ NextRun
  \/ CreateCall(1)
  \/ CreateDependenciesStep
  \/ CreateHookStep
  \/ \E i \in DOMAIN install : InstallStep(i)
  \/ RunThreadedJoin
  \/ LeaderStep
  \/ ConfigureAndStartStep
  \/ op = "Create" /\ Resume

SpecRunner == InitRun /\ [][NextRunner]_vars

\* ------------------------------------------------------------ properties

\* C1: a resource constructed with a static_dpb_service_instance is never
\* created or deleted: Create() and Delete() on it return at once, invoke
\* none of _CreateDependencies, _Create, _Delete, _DeleteDependencies, and
\* leave its state, leader and cluster untouched.
C1_UserManagedInvokesNoHook ==
  \A r \in Res :
    static[r] # None =>
      /\ state[r] = "Uninitialized"
      /\ leader[r] = NoVm
      /\ ~started[r]
      /\ cur = r => (pc = "done" /\ hooks = <<>> /\ raised = None)

C1_Witness ==
  /\ pc = "done"
  /\ op = "Delete"
  /\ static[cur] # None
  /\ buckets # {}

\* C2: a resource that is not user-managed starts Uninitialized; Create()
\* takes it to Creating and from there to Created or CreateFailed; a resource
\* becomes Created only at the end of a Create() whose _CreateDependencies
\* made the bucket and whose _Create installed on every VM, set the leader to
\* the first master and started the cluster.
C2_CreatedOnlyBySuccessfulCreate ==
  /\ \A r \in Res : state[r] = "Uninitialized"
  /\ [][\A r \in Res :
          static[r] = None =>
            /\ state[r] = "Uninitialized" =>
                 state'[r] \in {"Uninitialized", "Creating", "Deleted"}
            /\ state[r] = "Creating" =>
                 state'[r] \in {"Creating", "Created", "CreateFailed"}
            /\ (state'[r] = "Creating" /\ state[r] # "Creating") =>
                 (op' = "Create" /\ cur' = r)
            /\ (state'[r] = "Created" /\ state[r] # "Created") =>
                 /\ state[r] = "Creating"
                 /\ op = "Create" /\ cur = r
                 /\ hooks = <<"_CreateDependencies", "_Create">>
                 /\ bucket(r) \in buckets
                 /\ \A i \in DOMAIN install : install[i] = "ok"
                 /\ Len(install) = Len(InstallTargets(r))
                 /\ Len(vms[r]["master_group"]) >= 1
                 /\ leader[r] = vms[r]["master_group"][1]
                 /\ started'[r]
                 /\ raised' = None]_vars

C2_Witness ==
  /\ pc = "done"
  /\ op = "Create"
  /\ state[cur] = "Created"

DependencyErrors == {"AttributeError", "BucketError"}

\* C3: in a Create() of a resource that is not user-managed, _Create is
\* invoked at most once and only after _CreateDependencies made the bucket;
\* when Create() ends, _Create was invoked once if the dependencies were
\* provisioned and not at all if they were not.
C3_CreateHookOnceAfterDependencies ==
  (op = "Create" /\ static[cur] = None) =>
    /\ hooks \in { <<>>, <<"_CreateDependencies">>,
                   <<"_CreateDependencies", "_Create">> }
    /\ (pc = "_Create" \/ "_Create" \in Range(hooks)) =>
         (hooks[1] = "_CreateDependencies" /\ bucket(cur) \in buckets)
    /\ pc = "done" =>
         IF raised \in DependencyErrors
           THEN hooks = <<"_CreateDependencies">>
           ELSE hooks = <<"_CreateDependencies", "_Create">>

C3_Witness ==
  /\ pc = "done"
  /\ op = "Create"
  /\ hooks = <<"_CreateDependencies", "_Create">>
  /\ raised = None

\* C4: a Create() in which _CreateDependencies or _Create fails ends in
\* CreateFailed and raises the failure (CreationError when self.vms has no
\* worker_group); it invokes neither _Delete nor _DeleteDependencies, and a
\* bucket it made stays until a Delete() removes it.
C4_FailedCreateLeavesCleanupToCaller ==
  /\ [](pc = "done" /\ op = "Create" /\ static[cur] = None =>
          /\ raised # None <=> state[cur] = "CreateFailed"
          /\ raised = None <=> state[cur] = "Created"
          /\ Range(hooks) \cap {"_Delete", "_DeleteDependencies"} = {}
          /\ Len(hooks) = 2 => bucket(cur) \in buckets
          /\ (Len(hooks) = 2 /\ "worker_group" \notin DOMAIN vms[cur]) =>
               raised = "CreationError")
  /\ [][~(buckets \subseteq buckets') =>
          (op = "Delete" /\ pc = "_DeleteDependencies")]_vars

C4_Witness ==
  /\ pc = "done"
  /\ op = "Create"
  /\ raised = "CreationError"
  /\ state[cur] = "CreateFailed"
  /\ bucket(cur) \in buckets

\* C5: Delete() on a resource that is not user-managed, in whatever state,
\* returns without raising and leaves the resource Deleted, with the cluster
\* and the bucket gone.
C5_DeleteSucceedsInEveryState ==
  (pc = "done" /\ op = "Delete" /\ static[cur] = None) =>
    /\ raised = None
    /\ state[cur] = "Deleted"
    /\ bucket(cur) \notin buckets
    /\ ~started[cur]

\* C6: Delete() invokes _Delete before _DeleteDependencies, and whenever the
\* cluster of a resource that is not user-managed is up, its bucket exists.
C6_ResourceNeverOutlivesDependencies ==
  /\ "_DeleteDependencies" \in Range(hooks) =>
       hooks = <<"_Delete", "_DeleteDependencies">>
  /\ \A r \in Res : (static[r] = None /\ started[r]) => bucket(r) \in buckets

\* C7: when the bucket is already absent during a Delete() (the backend
\* answers "no such bucket"), Delete() goes on from _Delete to
\* _DeleteDependencies, raises nothing and ends in Deleted.
C7_AbsentIsSuccess ==
  [][(op = "Delete" /\ pc # "done" /\ storage_service(cur) # None
        /\ bucket(cur) \notin buckets) =>
       /\ pc = "_Delete" => pc' = "_DeleteDependencies"
       /\ pc = "_DeleteDependencies" =>
            /\ absent'
            /\ pc' = "done"
            /\ raised' = None
            /\ state'[cur] = "Deleted"
            /\ hooks' = <<"_Delete", "_DeleteDependencies">>]_vars

C7_Witness ==
  /\ pc = "done"
  /\ op = "Delete"
  /\ absent
  /\ raised = None
  /\ state[cur] = "Deleted"

\* C8: a Delete() on one resource never removes the bucket of another
\* resource that is Created.
C8_DeleteKeepsOthersBuckets ==
  [][\A r \in Res :
       (op = "Delete" /\ cur # r /\ static[r] = None /\ state[r] = "Created"
          /\ bucket(r) \in buckets) =>
         bucket(r) \in buckets']_vars

\* C9: when _GetCompletedJob answers "not finished" on the first k-1 calls and
\* returns a result on call k, and (k-1) * poll_interval < timeout, _WaitForJob
\* returns that result after exactly k calls, at least (k-1) * poll_interval
\* and less than timeout seconds after it was called.
C9_ResultAfterKProbes ==
  (pc = "done" /\ op = "WaitForJob" /\ backend = "polled"
     /\ job.doneAt >= 1 /\ ~job.fails
     /\ (job.doneAt - 1) * poll_interval < timeout) =>
    /\ raised = None
    /\ returned = job.result
    /\ tries = job.doneAt
    /\ elapsed >= (job.doneAt - 1) * poll_interval
    /\ elapsed < timeout

C9_Witness ==
  /\ pc = "done"
  /\ op = "WaitForJob"
  /\ job.doneAt = 3
  /\ poll_interval = 1
  /\ tries = 3
  /\ elapsed = 2
  /\ returned = job.result
  /\ returned # <<>>

\* C10: when _GetCompletedJob answers "not finished" on every call,
\* _WaitForJob ends, not before timeout seconds have passed, and raises the
\* timeout error, which is not JobSubmissionError.
C10_NeverResolvingTimesOut ==
  /\ [](pc = "done" /\ op = "WaitForJob" /\ backend = "polled"
          /\ job.doneAt = 0 =>
            /\ raised = "TimeoutError"
            /\ raised # "JobSubmissionError"
            /\ returned = <<>>
            /\ elapsed >= timeout)
  /\ (pc = "poll" /\ backend = "polled" /\ job.doneAt = 0) ~> (pc = "done")

C10_Witness ==
  /\ pc = "done"
  /\ op = "WaitForJob"
  /\ backend = "polled"
  /\ job.doneAt = 0
  /\ raised = "TimeoutError"
  /\ elapsed >= timeout

\* C11: when a _GetCompletedJob call of a _WaitForJob raises
\* JobSubmissionError, _WaitForJob ends at once with that error: the failing
\* probe is the last one, nothing is returned, and the outcome is not the
\* timeout error.
C11_FailureEndsPolling ==
  (op = "WaitForJob" /\ backend = "polled" /\ job.fails
     /\ job.doneAt > 0 /\ tries >= job.doneAt) =>
    /\ pc = "done"
    /\ raised = "JobSubmissionError"
    /\ tries = job.doneAt
    /\ returned = <<>>

C11_Witness ==
  /\ pc = "done"
  /\ op = "WaitForJob"
  /\ raised = "JobSubmissionError"
  /\ tries > 1
  /\ elapsed > 0

\* C12 as stated: _WaitForJob never ends with JobNotCompletedError; on every
\* class its caller sees a result, JobSubmissionError or the timeout error.
C12_OnlyResultFailureOrTimeout ==
  (op = "WaitForJob" /\ pc = "done") =>
    \/ raised = None /\ returned # <<>>
    \/ raised \in {"JobSubmissionError", "TimeoutError"} /\ returned = <<>>

\* C12: _WaitForJob never ends with JobNotCompletedError. On a class that
\* implements _GetCompletedJob its caller sees a result, JobSubmissionError
\* or the timeout error; on a class that does not, the NotImplementedError
\* of the hook.
C12_NotCompletedNeverSurfaces ==
  (op = "WaitForJob" /\ pc = "done") =>
    /\ raised # "JobNotCompletedError"
    /\ \/ raised = None /\ returned # <<>>
       \/ raised \in {"JobSubmissionError", "TimeoutError"} /\ returned = <<>>
       \/ /\ backend # "polled"
          /\ raised = "NotImplementedError"
          /\ returned = <<>>

C12_Witness ==
  /\ pc = "done"
  /\ op = "WaitForJob"
  /\ backend = "polled"
  /\ raised = "TimeoutError"
  /\ tries > 1

\* C13: on the base class and on the two SSH clusters _WaitForJob makes one
\* _GetCompletedJob call, never sleeps, and ends with the NotImplementedError
\* that call raised.
C13_SynchronousBackendFailsFast ==
  (op = "WaitForJob" /\ backend \in {"base", "yarn", "spark"}) =>
    \/ pc = "poll" /\ tries = 0 /\ elapsed = 0
    \/ /\ pc = "done"
       /\ tries = 1
       /\ elapsed = 0
       /\ raised = "NotImplementedError"
       /\ returned = <<>>

C13_Witness ==
  /\ pc = "done"
  /\ op = "WaitForJob"
  /\ backend = "spark"
  /\ raised = "NotImplementedError"

SubmitOps == {"SubmitJob", "DistributedCopy"}

\* C14: when the remote command of a submission raises RemoteCommandError,
\* the submission ends with JobSubmissionError, never with the transport's
\* own error; no JobResult is returned, no second clock reading is taken and
\* no stdout file is written.
C14_TransportFailureIsJobSubmissionError ==
  /\ raised # "RemoteCommandError"
  /\ (op \in SubmitOps /\ sent # <<>>
        /\ sent[Len(sent)].exc = "RemoteCommandError") =>
       /\ pc = "done"
       /\ raised = "JobSubmissionError"
       /\ returned = <<>>
       /\ end_time = <<>>
       /\ written = <<>>

C14_Witness ==
  /\ pc = "done"
  /\ op = "SubmitJob"
  /\ raised = "JobSubmissionError"
  /\ args.job_stdout_file # None
  /\ sent # <<>>
  /\ sent[1].exc = "RemoteCommandError"

\* C15: every JobResult a submission returns has run_time >= 0 and
\* pending_time >= 0, whatever the two clock readings were.
C15_RunTimeNeverNegative ==
  (op \in SubmitOps /\ returned # <<>>) =>
    /\ returned[1].run_time >= 0
    /\ returned[1].pending_time >= 0

\* C16: _ProcessWallTime(start, end) raises ValueError when start > end and
\* returns end - start otherwise, which is 0 when start = end and never
\* negative.
C16_ProcessWallTimeRejectsEndBeforeStart ==
  (op = "_ProcessWallTime" /\ pc = "done") =>
    IF start_time[1] > end_time[1]
      THEN raised = "ValueError" /\ returned = <<>>
      ELSE /\ raised = None
           /\ returned = <<end_time[1] - start_time[1]>>
           /\ returned[1] >= 0
           /\ start_time = end_time => returned[1] = 0

C16_Witness ==
  /\ op = "_ProcessWallTime"
  /\ pc = "done"
  /\ raised = "ValueError"
  /\ start_time[1] = end_time[1] + 1

\* C17: the wall_time of a JobResult with run_time >= 0 and pending_time >= 0
\* is run_time + pending_time; a JobResult built without a pending time has
\* pending_time = 0 and wall_time = run_time.
C17_WallTimeIsRunPlusPending ==
  /\ (op = "JobResult(run_time, pending_time)" /\ pc = "done") =>
       returned = <<job.result[1].run_time + job.result[1].pending_time>>
  /\ (op = "JobResult(run_time)" /\ pc \in {"wall_time", "done"}) =>
       /\ job.result[1].pending_time = 0
       /\ pc = "done" => returned = <<job.result[1].run_time>>

C17_Witness ==
  /\ op = "JobResult(run_time, pending_time)"
  /\ pc = "done"
  /\ job.result[1].run_time > 0
  /\ job.result[1].pending_time > 0
  /\ returned = <<job.result[1].run_time + job.result[1].pending_time>>

\* The property options of a command line, '-Dk=v' or 'k=v' after --conf,
\* as <<k, v>> pairs in the order they stand in.
IsPropertyWord(t) == (Len(t) = 4 /\ t[1] = "-D") \/ (Len(t) = 3 /\ t[2] = "=")

PassedProperties(c) ==
  LET words == SelectSeq(c, IsPropertyWord) IN
    [i \in DOMAIN words |->
       IF Len(words[i]) = 4 THEN <<words[i][2], words[i][4]>>
                            ELSE <<words[i][1], words[i][3]>>]

\* The value FLAGS.dpb_job_properties gives key k: that of its last entry.
DefaultValue(flags, k) ==
  LET last == CHOOSE i \in DOMAIN flags :
                /\ flags[i][1] = k
                /\ \A j \in DOMAIN flags : flags[j][1] = k => j <= i
  IN flags[last][2]

\* C18: the properties on the command line of every submission are the
\* defaults of FLAGS.dpb_job_properties overridden by the caller's: each key
\* of either map stands once, with the caller's value if the caller gave one
\* and the default otherwise.
C18_CallerPropertiesOverrideDefaults ==
  (op \in SubmitOps /\ sent # <<>>) =>
    LET passed == PassedProperties(sent[1].cmd)
        caller == IF args.properties = <<>> THEN <<>> ELSE args.properties[1]
        keys == DictKeys(caller) \cup DictKeys(args.flags)
    IN /\ DictKeys(passed) = keys
       /\ Len(passed) = Cardinality(keys)
       /\ \A i \in DOMAIN passed :
            passed[i][2] = IF passed[i][1] \in DictKeys(caller)
                             THEN DictGet(caller, passed[i][1])
                             ELSE DefaultValue(args.flags, passed[i][1])

\* C19: on every class with a leader, DistributedCopy(source, destination,
\* properties) runs one command on the leader, the DistCp class followed by
\* the properties, source and destination, and ends with the JobResult of
\* that command or with JobSubmissionError.
C19_DistributedCopySubmitsDistCp ==
  (op = "DistributedCopy" /\ pc = "done" /\ leader[cur] # NoVm) =>
    /\ Len(sent) = 1
    /\ sent[1].cmd[2] = Tok("org.apache.hadoop.tools.DistCp")
    /\ SubSeq(sent[1].cmd, Len(sent[1].cmd) - 1, Len(sent[1].cmd))
         = Toks(args.job_arguments)
    /\ \/ raised = None /\ returned # <<>>
       \/ raised = "JobSubmissionError" /\ returned = <<>>

\* C20: a RunThreaded call over the N VMs of the benchmark that raises
\* nothing returns N results, the i-th being what the thread of the i-th VM
\* returned, in whatever order the threads ended; the samples Run returns are
\* the gfile sample lists in VM order followed by the gcsfuse sample lists in
\* VM order.
C20_ResultsInInputOrder ==
  /\ [](op = "Run" /\ pc = "done" /\ raised = None =>
          /\ Len(gfile_sample_lists) = Len(bvms)
          /\ Len(gcsfuse_sample_lists) = Len(bvms)
          /\ \A k \in DOMAIN finished :
               gcsfuse_sample_lists[finished[k].target] = finished[k].val
          /\ returned = <<Extend(gfile_sample_lists)
                            \o Extend(gcsfuse_sample_lists)>>)
  /\ [][pc = "gfile" /\ pc' = "gcsfuse" =>
          /\ Len(gfile_sample_lists') = Len(bvms)
          /\ \A k \in DOMAIN finished :
               gfile_sample_lists'[finished[k].target] = finished[k].val]_vars

C20_Witness ==
  /\ op = "Run"
  /\ pc = "done"
  /\ raised = None
  /\ finished[1].target = 2
  /\ finished[1].val # finished[2].val
  /\ Len(returned[1]) > 2

\* VMs of both groups of resource r.
GroupSizes(r) == Len(vms[r]["worker_group"]) + Len(vms[r]["master_group"])

\* C21: when the function fails for some target of a RunThreaded call (the
\* installations of _Create, _Prepare, the read tests of Run), the call ends
\* only after the thread of every target was started and has ended, and its
\* caller gets one failure and no result list.
C21_FailureAfterAllTargetsRan ==
  /\ (op \in {"Prepare", "Run"} /\ pc = "done"
        /\ \E k \in DOMAIN finished : finished[k].exc # None) =>
       /\ running = {}
       /\ Len(finished) = Len(bvms)
       /\ { finished[k].target : k \in DOMAIN finished } = DOMAIN bvms
       /\ raised # None
       /\ \E k \in DOMAIN finished : finished[k].exc = raised
       /\ returned = <<>>
       /\ gcsfuse_sample_lists = <<>>
  /\ (op = "Create" /\ pc = "done"
        /\ \E i \in DOMAIN install : install[i] = "failed") =>
       /\ Len(install) = GroupSizes(cur)
       /\ \A i \in DOMAIN install : install[i] # "pending"
       /\ raised = "InstallError"
       /\ state[cur] = "CreateFailed"

C21_Witness ==
  /\ op = "Prepare"
  /\ pc = "done"
  /\ raised = "RemoteCommandError"
  /\ Len(finished) > 1
  /\ finished[1].exc # None
  /\ finished[2].exc = None
  /\ bvms[finished[2].target] \in mounted

\* C22: a RunThreaded call returns only after the thread of every target
\* has ended. In _Create the leader is assigned and the cluster is started
\* only after the installation has ended on every VM of both groups; in Run
\* the gcsfuse read tests start only after the gfile read test has ended on
\* every VM.
C22_NextStepAfterEveryThread ==
  /\ []((op = "Create" /\ pc \in {"leader", "ConfigureAndStart"}) =>
          /\ Len(install) = GroupSizes(cur)
          /\ \A i \in DOMAIN install : install[i] = "ok")
  /\ []((op = "Run" /\ pc = "gcsfuse") => Len(gfile_sample_lists) = Len(bvms))
  /\ [][/\ \A r \in Res :
             (leader'[r] # leader[r] \/ started'[r] # started[r]) =>
               /\ cur = r
               /\ Len(install) = GroupSizes(r)
               /\ \A i \in DOMAIN install : install[i] = "ok"
        /\ (pc \in {"Prepare", "gfile", "gcsfuse"} /\ pc' # pc) =>
             /\ running = {}
             /\ { finished[k].target : k \in DOMAIN finished } = DOMAIN bvms
        /\ (pc = "RunThreaded" /\ pc' # pc) =>
             \A i \in DOMAIN install : install[i] # "pending"]_vars

C22_Witness ==
  /\ op = "Create"
  /\ pc = "ConfigureAndStart"
  /\ leader[cur] = vms[cur]["master_group"][1]
  /\ Len(install) > 1

\* The state of the job the engine is working on. _WaitForJob is handed the
\* id of a submitted job, which is polled from the call on; the job is
\* resolved once a probe has seen it finished or failed, and timed out when
\* Retry gave up. A submission over SSH is under way while the remote command
\* runs and is resolved by its outcome.
JobState ==
  IF op = "WaitForJob" /\ backend = "polled"
    THEN IF job.doneAt > 0 /\ tries >= job.doneAt
           THEN IF job.fails THEN "Failed" ELSE "Completed"
         ELSE IF pc = "done" /\ raised = "TimeoutError" THEN "TimedOut"
         ELSE "Polling"
  ELSE IF op = "SubmitJob"
    THEN IF pc = "done" /\ raised = None THEN "Completed"
         ELSE IF pc = "done" /\ raised = "JobSubmissionError" THEN "Failed"
         ELSE IF pc = "end_time" THEN "Submitted"
         ELSE IF pc = "RobustRemoteCommand" /\ leader[cur] # NoVm
           THEN "Submitted"
         ELSE "NoJob"
  ELSE "NoJob"

Terminal == {"Completed", "Failed", "TimedOut"}

SynchronousEdges ==
  { <<"NoJob", "Submitted">>, <<"Submitted", "Completed">>,
    <<"Submitted", "Failed">> }

PolledEdges ==
  { <<"NoJob", "Polling">>, <<"Polling", "Completed">>,
    <<"Polling", "Failed">>, <<"Polling", "TimedOut">> }

\* C23: a job submitted over SSH goes from Submitted to Completed or Failed;
\* a submitted job that is waited for goes through Polling to Completed,
\* Failed or TimedOut. The call has ended exactly when the job is
\* in one of these terminal states, with the outcome of that state, and from
\* then on the job is not probed, no command is sent for it and its state
\* does not change: the only step left is the caller going on.
C23_JobStatesAndTerminal ==
  /\ [](op = "WaitForJob" /\ backend = "polled" =>
          /\ pc = "done" <=> JobState \in Terminal
          /\ JobState = "Completed" =>
               raised = None /\ returned = job.result
          /\ JobState = "Failed" =>
               raised = "JobSubmissionError" /\ returned = <<>>
          /\ JobState = "TimedOut" => returned = <<>>)
  /\ [][/\ (JobState' # JobState /\ JobState \notin Terminal) =>
             <<JobState, JobState'>> \in
               (IF op' = "SubmitJob" THEN SynchronousEdges ELSE PolledEdges)
        /\ JobState \in Terminal =>
             /\ pc = "done"
             /\ pc' = "idle"
             /\ JobState' = "NoJob"
             /\ tries' <= tries
             /\ Len(sent') <= Len(sent)]_vars

C23_Witness ==
  /\ op = "WaitForJob"
  /\ pc = "done"
  /\ JobState = "Completed"
  /\ tries > 1
  /\ elapsed > 0

\* The job kinds a class does not take.
Unsupported(b, a) ==
  IF b = "yarn" THEN a.job_type # HADOOP_JOB_TYPE
  ELSE a.job_type \notin {PYSPARK_JOB_TYPE, SPARK_JOB_TYPE}

\* C24: a submission of a job kind the class does not take (anything but
\* hadoop on the Yarn cluster, anything but spark and pyspark on the Spark
\* cluster) ends with NotImplementedError at its first step: it is not tried
\* again, no command was built or sent, no clock was read and no stdout file
\* was written.
C24_UnsupportedKindRejectedFirst ==
  (op \in SubmitOps /\ Unsupported(backend, args)) =>
    /\ pc \in {"SubmitJob", "done"}
    /\ pc = "done" => raised = "NotImplementedError"
    /\ cmd = <<>>
    /\ sent = <<>>
    /\ start_time = <<>>
    /\ end_time = <<>>
    /\ written = <<>>
    /\ returned = <<>>
    /\ tries = 0

C24_Witness ==
  /\ op = "SubmitJob"
  /\ pc = "done"
  /\ backend = "yarn"
  /\ args.job_type = SPARK_JOB_TYPE
  /\ args.job_stdout_file # None
  /\ args.jarfile # None
  /\ leader[cur] # NoVm
  /\ raised = "NotImplementedError"

\* The command of the claim: spark-submit, the class, one --conf per merged
\* property, the --files list, the main jar or script, the job arguments.
SparkCommandInOrder(a) ==
  <<Tok(SPARK_SUBMIT)>>
  \o (IF a.classname # None THEN <<Tok("--class"), Tok(a.classname)>> ELSE <<>>)
  \o ConfOptions(AllProperties(a.flags, a.properties))
  \o (IF a.job_files # <<>>
        THEN <<Tok("--files"), CommaJoin(a.job_files)>> ELSE <<>>)
  \o <<Tok(IF a.job_type = SPARK_JOB_TYPE THEN a.jarfile ELSE a.pyspark_file)>>
  \o Toks(a.job_arguments)

\* C25: the command of every spark or pyspark submission on the Spark
\* cluster, with or without job_files, is spark-submit, then --class and the
\* class when one is given, then one --conf k=v per merged property, then
\* --files and the comma-joined list when job_files is given, then the main
\* jar or script, then the job arguments; this is the command the leader is
\* sent.
C25_SparkCommandComplete ==
  (op = "SubmitJob" /\ backend = "spark" /\ cmd # <<>>) =>
    /\ cmd = SparkCommandInOrder(args)
    /\ \A k \in DOMAIN sent : sent[k].cmd = SparkCommandInOrder(args)

\* C26: when Create() has returned without an error, on a user-managed
\* service too, the leader is the first VM of the master group; so every
\* later submission of a job kind the class takes sends its command to the
\* leader and ends with a JobResult or with JobSubmissionError, never with
\* another error.
C26_LeaderAfterCreate ==
  /\ (op = "Create" /\ pc = "done" /\ raised = None) =>
       leader[cur] = vms[cur]["master_group"][1]
  /\ (op = "SubmitJob" /\ pc = "done" /\ CreateReturned(cur)
        /\ ~Unsupported(backend, args)) =>
       /\ sent # <<>>
       /\ raised \in {None, "JobSubmissionError"}
       /\ raised = None => returned # <<>>

\* C27: after Prepare, once Cleanup has returned without an error, gcsfuse is
\* mounted at /gcs on no VM of the benchmark, however many VMs it has.
C27_NothingMountedAfterCleanup ==
  (op = "Cleanup" /\ pc = "done" /\ raised = None) => mounted = {}

\* C28: _PostCreate applies the flags. Without flags no command is issued and
\* nothing is raised; a managed database hands over to _ApplyManagedDbFlags;
\* an unmanaged database of another engine than MySQL gets NotImplementedError
\* and no command; on an unmanaged MySQL database one SET command per flag is
\* issued in the order of the list, up to and including the first that
\* reports stderr, and only that one makes the call raise.
C28_FlagsApplied ==
  (op = "_PostCreate" /\ pc = "done") =>
    IF db_flags = <<>>
      THEN sent = <<>> /\ raised = None /\ hooks = <<>>
    ELSE IF is_managed_db
      THEN sent = <<>> /\ hooks = <<"_ApplyManagedDbFlags">>
    ELSE IF engine # MYSQL
      THEN sent = <<>> /\ raised = "NotImplementedError" /\ hooks = <<>>
    ELSE /\ hooks = <<>>
         /\ Len(sent) \in 1..Len(db_flags)
         /\ \A k \in DOMAIN sent :
              /\ sent[k].cmd = SetFlagCommand(db_flags[k])
              /\ k < Len(sent) => sent[k].exc = None
         /\ raised \in {None, "Exception"}
         /\ raised = None =>
              Len(sent) = Len(db_flags) /\ sent[Len(sent)].exc = None
         /\ raised = "Exception" => sent[Len(sent)].exc # None

====
